---------------------------- MODULE Spec2Model ----------------------------
(***************************************************************************)
(* Email-to-record ingestion pipeline of BaristaCMS.                       *)
(*                                                                         *)
(*   server/services/emailProcessor.js  scheduler, guard, scheduled pass   *)
(*   server/routes/emailInbox.js        POST /process, /process-single     *)
(*                                      (second half of unnamed/part_007)  *)
(*   server/services/email.js           mailbox client, subject tag parser *)
(*   server/db/schema.js                processed_emails (email_id UNIQUE) *)
(*   server/index.js                    startServer (unnamed/part_005)     *)
(*                                                                         *)
(* Every `await` of the source is one interleaving point: an action is the *)
(* synchronous code that runs between two awaits of one invocation.        *)
(***************************************************************************)
EXTENDS Integers, Sequences, FiniteSets, TLC

(***************************************************************************)
(* Bounds of the model.                                                    *)
(***************************************************************************)
MaxEmails == 2        \* messages in the mailbox
MaxRecords == 3       \* rows module_records may hold
MaxFailures == 1      \* collaborator failures injected in one behaviour
MaxTimerIds == 2      \* interval timers that may exist at once
MaxInterval == 2      \* largest intervalMinutes passed to start/updateInterval
MaxSubjectLen == 5    \* characters of a subject handed to the tag parser

(***************************************************************************)
(* Program constants.                                                      *)
(***************************************************************************)
MaxResults == 50          \* fetchInboxEmails({ maxResults: 50, unreadOnly: true })
MaxResultsSingle == 100   \* fetchInboxEmails({ maxResults: 100, unreadOnly: false })
MsPerMinute == 60000      \* intervalMinutes * 60 * 1000
MaxUrlLength == 2000      \* url.length <= 2000

VARIABLES
  processorInterval,  \* emailProcessor.js: handle of the armed interval, 0 = null
  isProcessing,       \* emailProcessor.js: the in-flight flag
  debugLogging,       \* emailProcessor.js: the debug toggle
  timers,             \* the event loop's armed interval timers: [id, ms]
  timerSeq,           \* id of the timer created last (timer objects are fresh)
  calls,              \* in-flight startEmailProcessor / updateEmailProcessorInterval calls
  booted,             \* startServer has run
  settings,           \* site_settings rows the pipeline reads
  modules,            \* modules table: id -> row
  inbox,              \* the remote mailbox: id -> message
  processed_emails,   \* the ledger
  module_records,     \* the record store
  record_files,       \* record_images and record_documents rows
  record_links,       \* record_links rows
  record_history,     \* record_history rows
  outbox,             \* auto-responses handed to the mail sender
  job,                \* position and locals of every pass / request in flight
  faultBudget,        \* collaborator failures the environment may still inject
  subject,            \* email.js: the argument of a parseModuleTagFromSubject call
  tagResult           \* email.js: what that call returned

timerVars == <<processorInterval, timers, timerSeq, calls, booted>>
\* What no step of the pipeline writes: the fixture rows, and the argument
\* and result of the tag parser called on its own.
fixtureVars == <<settings, modules, subject, tagResult>>
storeVars == <<processed_emails, module_records, record_files, record_links,
               record_history, outbox>>
vars == <<processorInterval, isProcessing, debugLogging, timers, timerSeq, calls, booted,
          settings, modules, inbox, processed_emails, module_records, record_files,
          record_links, record_history, outbox, job, faultBudget, subject, tagResult>>

EmailIds == 1..MaxEmails
Intervals == (0 - 1)..MaxInterval

(***************************************************************************)
(* Invocations.  Every call of processEmails (a timer tick or the          *)
(* immediate run of start) is its own async invocation; so is every HTTP   *)
(* request.  The slots bound how many may be in flight together.           *)
(***************************************************************************)
SchedProcs == {"s1", "s2"}
NowProcs == {"now"}
SingleProcs == {"single"}
Procs == SchedProcs \cup NowProcs \cup SingleProcs
CallSlots == {"c1", "c2"}

IdleJob ==
  [pc |-> "idle", origin |-> "none", batch |-> <<>>, idx |-> 0, eid |-> 0,
   target |-> "", row |-> "", mod |-> 0, rec |-> 0, att |-> 0, files |-> 0, links |-> 0,
   code |-> 0, processed |-> <<>>, skipped |-> <<>>, errors |-> <<>>]

IdleCall == [pc |-> "idle", via |-> "none", n |-> 0, before |-> {}]


(***************************************************************************)
(* Fixtures: the rows the pipeline only reads.                             *)
(***************************************************************************)
\* modules rows: name is UNIQUE; config is the parsed JSON, parses = FALSE when
\* JSON.parse throws.
ModuleFixture ==
  [i \in 1..5 |->
     CASE i = 1 -> [id |-> 1, name |-> "support", is_active |-> TRUE,
                    config |-> [parses |-> TRUE, enableEmailInbox |-> TRUE, autoProcessEmails |-> TRUE]]
       [] i = 2 -> [id |-> 2, name |-> "sales", is_active |-> TRUE,
                    config |-> [parses |-> TRUE, enableEmailInbox |-> TRUE, autoProcessEmails |-> FALSE]]
       [] i = 3 -> [id |-> 3, name |-> "archive", is_active |-> TRUE,
                    config |-> [parses |-> TRUE, enableEmailInbox |-> FALSE, autoProcessEmails |-> FALSE]]
       [] i = 4 -> [id |-> 4, name |-> "legacy", is_active |-> FALSE,
                    config |-> [parses |-> TRUE, enableEmailInbox |-> TRUE, autoProcessEmails |-> TRUE]]
       [] OTHER -> [id |-> 5, name |-> "broken", is_active |-> TRUE,
                    config |-> [parses |-> FALSE, enableEmailInbox |-> TRUE, autoProcessEmails |-> TRUE]]]

\* The same rows with autoProcessEmails off in every config that parses.
ModuleFixtureNoAuto == [ModuleFixture EXCEPT ![1].config.autoProcessEmails = FALSE]

\* The same rows, all active, each with a config that parses and has both
\* enableEmailInbox and autoProcessEmails.
ModuleFixtureAllAuto ==
  [i \in 1..5 |->
     [ModuleFixture[i] EXCEPT !.is_active = TRUE,
                              !.config = [parses |-> TRUE, enableEmailInbox |-> TRUE,
                                          autoProcessEmails |-> TRUE]]]

\* String.prototype.toLowerCase on the names the fixtures use.
ToLowerCase(s) ==
  CASE s = "Support" -> "support"
    [] s = "SALES" -> "sales"
    [] s = "Archive" -> "archive"
    [] s = "Legacy" -> "legacy"
    [] s = "Nowhere" -> "nowhere"
    [] s = "Broken" -> "broken"
    [] OTHER -> s

\* A message as fetchInboxEmails maps it.  `subject` is kept as the pair
\* (bracketed tag or "", rest of the subject); `atts` are the attachment
\* names of the message; `hrefs` the anchors of its HTML body in document
\* order.
Message(tag, rest, atts, hrefs) ==
  [tag |-> tag, rest |-> rest, atts |-> atts, hrefs |-> hrefs, isRead |-> FALSE]

MsgSupport == Message("Support", "Broken chair", <<"a.png">>, <<"u1", "u1">>)
MsgSupportPlain == Message("Support", "", <<>>, <<>>)
MsgNoTag == Message("", "Hello", <<>>, <<"u2">>)
MsgSales == Message("SALES", "Offer", <<>>, <<>>)
MsgUnknown == Message("Nowhere", "Lost", <<>>, <<>>)
MsgArchive == Message("Archive", "Old", <<>>, <<>>)
MsgLegacy == Message("Legacy", "Past", <<>>, <<>>)
MsgBroken == Message("Broken", "Odd", <<>>, <<>>)
MsgLinks ==
  Message("Support", "Links", <<"a.png">>, <<"mailto:a", "u1", "click", "u1", "long", "unsub", "u2">>)
MsgTwoFiles == Message("Support", "Two files", <<"a.png", "b.pdf">>, <<>>)

(***************************************************************************)
(* email.js                                                                *)
(***************************************************************************)
\* parseModuleTagFromSubject: /^\[([^\]]+)\]/ ; moduleName is the tag lower-cased,
\* cleanSubject the subject without the tag and the whitespace after it.
parseModuleTagFromSubject(m) ==
  IF m.tag # ""
    THEN [moduleName |-> ToLowerCase(m.tag), cleanSubject |-> m.rest]
    ELSE [moduleName |-> "", cleanSubject |-> m.rest]

\* The subject as text: a sequence of characters over a small alphabet.
Chars == {"[", "]", "A", "a", " "}
Subjects == UNION {[1..n -> Chars] : n \in 0..MaxSubjectLen}

\* null, and the value of `tagResult` before the call.
Null == <<"null">>
NotParsed == [moduleName |-> Null, cleanSubject |-> Null, called |-> FALSE]

\* String.prototype.toLowerCase
LowerChar(c) == IF c = "A" THEN "a" ELSE c
toLowerCase(s) == [i \in DOMAIN s |-> LowerChar(s[i])]

\* \s* at the start of the text: the text without its leading whitespace.
RECURSIVE SkipSpace(_)
SkipSpace(s) == IF s # <<>> /\ Head(s) = " " THEN SkipSpace(Tail(s)) ELSE s

\* String.prototype.trim
RECURSIVE DropTrailingSpace(_)
DropTrailingSpace(s) ==
  IF s # <<>> /\ s[Len(s)] = " " THEN DropTrailingSpace(SubSeq(s, 1, Len(s) - 1)) ELSE s
trim(s) == DropTrailingSpace(SkipSpace(s))

\* /^\[([^\]]+)\]/ : the position of the bracket that closes the leading tag,
\* 0 when the subject does not match.
TagEnd(s) ==
  IF s # <<>> /\ s[1] = "[" /\ \E k \in 3..Len(s) : s[k] = "]" /\ s[2] # "]"
    THEN CHOOSE k \in 3..Len(s) : s[k] = "]" /\ \A j \in 2..(k - 1) : s[j] # "]"
    ELSE 0

\* parseModuleTagFromSubject on the text of a subject.
parseModuleTagFromSubjectText(s) ==
  IF TagEnd(s) # 0
    THEN [moduleName |-> trim(toLowerCase(SubSeq(s, 2, TagEnd(s) - 1))),
          cleanSubject |-> trim(SkipSpace(SubSeq(s, TagEnd(s) + 1, Len(s)))),
          called |-> TRUE]
    ELSE [moduleName |-> Null, cleanSubject |-> s, called |-> TRUE]

\* A caller hands a subject to the parser.
ParseSubject ==
  /\ ~tagResult.called
  /\ tagResult' = parseModuleTagFromSubjectText(subject)
  /\ UNCHANGED <<timerVars, isProcessing, debugLogging, settings, modules, subject, inbox,
                 storeVars, job, faultBudget>>

\* The first n elements of a sequence (.top(maxResults)).
Take(s, n) == IF Len(s) <= n THEN s ELSE SubSeq(s, 1, n)

\* Ids in descending order (orderby receivedDateTime desc: the newest
\* message, the one with the largest id here, comes first).
Descending(S) ==
  IF S = {} THEN <<>>
  ELSE [i \in 1..Cardinality(S) |->
          CHOOSE x \in S : Cardinality({y \in S : y > x}) = i - 1]

\* fetchInboxEmails(options): the (unread) messages, newest first, cut to maxResults.
fetchInboxEmails(maxResults, unreadOnly) ==
  Take(Descending({e \in DOMAIN inbox : ~unreadOnly \/ ~inbox[e].isRead}), maxResults)

(***************************************************************************)
(* The relational store.                                                   *)
(***************************************************************************)
\* SELECT id FROM processed_emails WHERE email_id = ?
LedgerHas(e) == \E i \in DOMAIN processed_emails : processed_emails[i].email_id = e

\* schema.js: email_id TEXT UNIQUE NOT NULL.  An INSERT of a second row with
\* the same email_id is rejected (db.run throws).
UniqueEmailIdNoConstraint(e) == TRUE
UniqueEmailId(e) == ~LedgerHas(e)

LedgerRow(e, moduleId, recordId, status, msg) ==
  [email_id |-> e, module_id |-> moduleId, record_id |-> recordId,
   status |-> status, error_message |-> msg]

\* A collaborator call (database, mailbox, mail sender) may fail.
CanFail == faultBudget > 0
Fault == faultBudget' = faultBudget - 1
NoFault == faultBudget' = faultBudget

\* modules.filter(...) of processEmails: active rows whose config parses and
\* has both enableEmailInbox and autoProcessEmails.
AutoProcessModulesAnyActive == {i \in DOMAIN modules : modules[i].is_active}
AutoProcessModules ==
  {i \in DOMAIN modules :
     /\ modules[i].is_active
     /\ modules[i].config.parses
     /\ modules[i].config.enableEmailInbox
     /\ modules[i].config.autoProcessEmails}

\* autoProcessModules.find(m => m.name.toLowerCase() === moduleName.toLowerCase())
FindAutoModule(name) ==
  LET hit == {i \in AutoProcessModules : ToLowerCase(modules[i].name) = ToLowerCase(name)}
  IN IF hit = {} THEN 0 ELSE CHOOSE i \in hit : \A k \in hit : i <= k

\* SELECT ... FROM modules WHERE LOWER(name) = LOWER(?) AND is_active = 1
FindActiveModule(name) ==
  LET hit == {i \in DOMAIN modules :
                modules[i].is_active /\ ToLowerCase(modules[i].name) = ToLowerCase(name)}
  IN IF hit = {} THEN 0 ELSE CHOOSE i \in hit : \A k \in hit : i <= k

\* config = module.config ? JSON.parse(module.config) : {} (catch -> {})
EnableEmailInbox(i) == modules[i].config.parses /\ modules[i].config.enableEmailInbox


(***************************************************************************)
(* Scheduler (emailProcessor.js).  The module-level state is passed        *)
(* through the functions as one record, so that a call can also be run to  *)
(* completion as a function; `spawned` counts the processEmails            *)
(* invocations the call makes.                                             *)
(***************************************************************************)
Sched ==
  [processorInterval |-> processorInterval, timers |-> timers, timerSeq |-> timerSeq,
   debugLogging |-> debugLogging, spawned |-> 0]

SetSched(S) ==
  /\ processorInterval' = S.processorInterval
  /\ timers' = S.timers
  /\ timerSeq' = S.timerSeq
  /\ debugLogging' = S.debugLogging

TimerIds(T) == {t.id : t \in T}

\* loadDebugSetting: debugLogging = setting?.setting_value === 'true'
loadDebugSetting(S) ==
  [S EXCEPT !.debugLogging = (settings.enable_debug_logging = "true")]

\* stopEmailProcessor: clearInterval on the handle and null it, when it is set.
stopEmailProcessor(S) ==
  IF S.processorInterval # 0
    THEN [S EXCEPT !.timers = {t \in @ : t.id # S.processorInterval},
                   !.processorInterval = 0]
    ELSE S

\* startEmailProcessor up to its await: stopEmailProcessor(), then the
\* settings read is under way.
startBeforeLoadNoStop(S) == S
startBeforeLoad(S) == stopEmailProcessor(S)

\* startEmailProcessor after its await: the interval test, the immediate
\* processEmails call (not awaited), then setInterval.
startAfterLoadNoPass(S, n) ==
  LET S1 == loadDebugSetting(S) IN
  IF n <= 0 THEN S1
  ELSE [S1 EXCEPT !.timers = @ \cup {[id |-> S1.timerSeq + 1, ms |-> n * MsPerMinute]},
                  !.processorInterval = S1.timerSeq + 1,
                  !.timerSeq = @ + 1]
startAfterLoad(S, n) ==
  LET S1 == loadDebugSetting(S) IN
  IF n <= 0 THEN S1
  ELSE [S1 EXCEPT !.spawned = @ + 1,
                  !.timers = @ \cup {[id |-> S1.timerSeq + 1, ms |-> n * MsPerMinute]},
                  !.processorInterval = S1.timerSeq + 1,
                  !.timerSeq = @ + 1]

\* startEmailProcessor run to completion with nothing interleaved.
startEmailProcessor(S, n) == startAfterLoad(startBeforeLoad(S), n)

\* updateEmailProcessorInterval run to completion: loadDebugSetting, then
\* startEmailProcessor.
updateEmailProcessorInterval(S, n) == startEmailProcessor(loadDebugSetting(S), n)

CurrentMs ==
  IF \E t \in timers : t.id = processorInterval
    THEN (CHOOSE t \in timers : t.id = processorInterval).ms
    ELSE 0

\* The invocation slots of P that are free, and the one a new invocation takes.
FreeSched(P) == {p \in P : job[p].pc = "idle"}
FirstFree(P) == CHOOSE p \in FreeSched(P) : \A q \in FreeSched(P) : p = "s1" \/ q # "s1"

\* processEmails(db, uploadsDir) is called and runs to its first await
\* (loadDebugSetting): a new invocation.
Spawn(P, origin) ==
  job' = [job EXCEPT ![FirstFree(P)] = [IdleJob EXCEPT !.pc = "load", !.origin = origin]]


(***************************************************************************)
(* Scheduler actions.                                                      *)
(***************************************************************************)
\* The slot a new call takes ("none" when every slot is busy).
FreeCall ==
  IF calls["c1"].pc = "idle" THEN "c1" ELSE IF calls["c2"].pc = "idle" THEN "c2" ELSE "none"

\* startServer (index.js): reads email_check_interval_minutes and calls
\* startEmailProcessor, not awaited, when it is > 0.
StartServer ==
  /\ ~booted
  /\ booted' = TRUE
  /\ IF settings.email_check_interval_minutes > 0
       THEN /\ SetSched(startBeforeLoad(Sched))
            /\ calls' = [calls EXCEPT !["c1"] =
                 [pc |-> "start_load", via |-> "start",
                  n |-> settings.email_check_interval_minutes, before |-> timers]]
       ELSE UNCHANGED <<processorInterval, timers, timerSeq, debugLogging, calls>>
  /\ UNCHANGED <<isProcessing, fixtureVars, inbox, storeVars, job, faultBudget>>

\* A caller invokes startEmailProcessor(db, uploadsDir, n): the code up to
\* `await loadDebugSetting(db)`.
StartCall(c, n) ==
  /\ booted
  /\ c = FreeCall
  /\ SetSched(startBeforeLoad(Sched))
  /\ calls' = [calls EXCEPT ![c] =
       [pc |-> "start_load", via |-> "start", n |-> n, before |-> timers]]
  /\ UNCHANGED <<booted, isProcessing, fixtureVars, inbox, storeVars, job, faultBudget>>

\* startEmailProcessor resumes after the settings read.
StartAfterLoad(c, P) ==
  /\ calls[c].pc = "start_load"
  /\ LET S == startAfterLoad(Sched, calls[c].n) IN
       /\ S.timerSeq <= MaxTimerIds
       /\ SetSched(S)
       /\ IF S.spawned > 0
            THEN FreeSched(P) # {} /\ Spawn(P, "start")
            ELSE UNCHANGED job
  /\ calls' = [calls EXCEPT ![c] = IdleCall]
  /\ UNCHANGED <<booted, isProcessing, fixtureVars, inbox, storeVars, faultBudget>>

\* stopEmailProcessor(): synchronous.
StopCall ==
  /\ booted
  /\ SetSched(stopEmailProcessor(Sched))
  /\ UNCHANGED <<calls, booted, isProcessing, fixtureVars, inbox, storeVars, job, faultBudget>>

\* A caller invokes updateEmailProcessorInterval(db, uploadsDir, n): the
\* code up to its `await loadDebugSetting(db)`.
UpdateCall(c, n) ==
  /\ booted
  /\ c = FreeCall
  /\ calls' = [calls EXCEPT ![c] =
       [pc |-> "upd_load", via |-> "update", n |-> n, before |-> timers]]
  /\ UNCHANGED <<processorInterval, timers, timerSeq, debugLogging, booted, isProcessing,
                 fixtureVars, inbox, storeVars, job, faultBudget>>

\* updateEmailProcessorInterval resumes: it calls startEmailProcessor, which
\* runs to its own await.
UpdateAfterLoad(c) ==
  /\ calls[c].pc = "upd_load"
  /\ SetSched(startBeforeLoad(loadDebugSetting(Sched)))
  /\ calls' = [calls EXCEPT ![c].pc = "start_load"]
  /\ UNCHANGED <<booted, isProcessing, fixtureVars, inbox, storeVars, job, faultBudget>>

\* An armed interval timer fires: setInterval's callback calls processEmails.
Tick(t, P) ==
  /\ t \in timers
  /\ FreeSched(P) # {}
  /\ Spawn(P, "tick")
  /\ UNCHANGED <<timerVars, isProcessing, debugLogging, fixtureVars, inbox, storeVars,
                 faultBudget>>

(***************************************************************************)
(* Positions of a pass or request.                                         *)
(***************************************************************************)
Kind(p) == IF p \in SchedProcs THEN "sched" ELSE IF p \in NowProcs THEN "now" ELSE "single"

\* The message an invocation is working on.
Cur(p) == IF Kind(p) = "single" THEN job[p].eid ELSE job[p].batch[job[p].idx]

\* The invocation ends.  processEmails returns; a request handler answers
\* with res.status(code).json(...) (res.json: 200), its locals still at hand.
Done(p, code) ==
  IF Kind(p) = "sched" THEN IdleJob
  ELSE [job[p] EXCEPT !.pc = "reply", !.code = code]

\* `continue` / the end of the loop body, from the locals j: the next message
\* of the batch, or the end of the loop; POST /process keeps its processed[],
\* skipped[] and errors[] arrays and answers with them after the loop.
NextOfSameMessage(p, j) ==
  IF Kind(p) # "single" /\ j.idx < Len(j.batch)
    THEN [IdleJob EXCEPT !.pc = "dedup", !.origin = j.origin,
                         !.batch = j.batch, !.idx = j.idx,
                         !.processed = j.processed, !.skipped = j.skipped,
                         !.errors = j.errors]
    ELSE IF Kind(p) = "sched" THEN IdleJob
    ELSE [j EXCEPT !.pc = "reply", !.code = 200]
NextOf(p, j) ==
  IF Kind(p) # "single" /\ j.idx < Len(j.batch)
    THEN [IdleJob EXCEPT !.pc = "dedup", !.origin = j.origin,
                         !.batch = j.batch, !.idx = j.idx + 1,
                         !.processed = j.processed, !.skipped = j.skipped,
                         !.errors = j.errors]
    ELSE IF Kind(p) = "sched" THEN IdleJob
    ELSE [j EXCEPT !.pc = "reply", !.code = 200]

NextMsg(p) == NextOf(p, job[p])

\* processed.push / skipped.push / errors.push of POST /process.
Push(p, list) ==
  IF Kind(p) # "now" THEN job[p]
  ELSE CASE list = "processed" -> [job[p] EXCEPT !.processed = Append(@, Cur(p))]
         [] list = "skipped" -> [job[p] EXCEPT !.skipped = Append(@, Cur(p))]
         [] OTHER -> [job[p] EXCEPT !.errors = Append(@, Cur(p))]

\* An awaited call throws while a record is being made.  Scheduled pass:
\* the per-message catch logs it and the loop goes on.  Requests: the
\* handler's catch answers 500 and the request ends.
ThrownEndsPass(p) == Done(p, 500)
Thrown(p) == IF Kind(p) = "sched" THEN NextMsg(p) ELSE Done(p, 500)

\* The invocation moves to j; a scheduled pass that ends clears the flag
\* (the early returns and the finally block).
GotoKeepsFlag(p, j) ==
  /\ job' = [job EXCEPT ![p] = j]
  /\ isProcessing' = isProcessing
Goto(p, j) ==
  /\ job' = [job EXCEPT ![p] = j]
  /\ isProcessing' = IF Kind(p) = "sched" /\ j.pc = "idle" THEN FALSE ELSE isProcessing

At(p, pc) == job[p].pc = pc


(***************************************************************************)
(* Link extraction.  A URL of the fixtures is described by what the        *)
(* filters look at.                                                        *)
(***************************************************************************)
UrlInfo(u) ==
  CASE u = "mailto:a" -> [skipPrefix |-> TRUE, words |-> {}, len |-> 8]
    [] u = "#top" -> [skipPrefix |-> TRUE, words |-> {}, len |-> 4]
    [] u = "unsub" -> [skipPrefix |-> FALSE, words |-> {"unsubscribe"}, len |-> 40]
    [] u = "click" -> [skipPrefix |-> FALSE, words |-> {"click."}, len |-> 40]
    [] u = "long" -> [skipPrefix |-> FALSE, words |-> {}, len |-> 2001]
    [] OTHER -> [skipPrefix |-> FALSE, words |-> {}, len |-> 20]

RECURSIVE ScanAnchors(_, _, _, _)
\* The while loop over the anchors: skip by prefix, skip by noise word, then
\* push when the URL is new (and, in emailProcessor.js, not too long).
ScanAnchors(hrefs, links, noise, lengthInPush) ==
  IF hrefs = <<>> THEN links
  ELSE LET url == Head(hrefs)
           keep == /\ ~UrlInfo(url).skipPrefix
                   /\ UrlInfo(url).words \cap noise = {}
                   /\ \A i \in DOMAIN links : links[i] # url
                   /\ (lengthInPush => UrlInfo(url).len <= MaxUrlLength)
       IN ScanAnchors(Tail(hrefs), IF keep THEN Append(links, url) ELSE links,
                      noise, lengthInPush)

\* emailProcessor.js extractLinksFromHtml
ExtractLinksProcessor(hrefs) ==
  ScanAnchors(hrefs, <<>>, {"unsubscribe", "tracking", "emailtracking"}, TRUE)

\* emailInbox.js extractLinksFromHtml
ExtractLinksRoutes(hrefs) ==
  ScanAnchors(hrefs, <<>>, {"unsubscribe", "tracking", "click.", "emailtracking"}, FALSE)

\* The links saveLinks / saveEmailLinks try to insert.
Range(q) == {q[i] : i \in DOMAIN q}
LinksToSave(p, e) ==
  IF Kind(p) = "sched"
    THEN Range(ExtractLinksProcessor(inbox[e].hrefs))
    ELSE {u \in Range(ExtractLinksRoutes(inbox[e].hrefs)) : UrlInfo(u).len <= MaxUrlLength}

(***************************************************************************)
(* The scheduled pass: processEmails.                                      *)
(***************************************************************************)
\* loadDebugSetting returns, then the guard: `if (isProcessing) return;`
\* else `isProcessing = true`.
GuardIgnoresFlag == TRUE
GuardOpen == ~isProcessing

SchedGuard(p) ==
  /\ Kind(p) = "sched" /\ At(p, "load")
  /\ debugLogging' = loadDebugSetting(Sched).debugLogging
  /\ IF GuardOpen
       THEN /\ isProcessing' = TRUE
            /\ job' = [job EXCEPT ![p].pc = "modules"]
       ELSE /\ isProcessing' = isProcessing
            /\ job' = [job EXCEPT ![p] = IdleJob]
  /\ UNCHANGED <<timerVars, fixtureVars, inbox, storeVars, faultBudget>>

\* db.all(modules) returns or throws; no auto-process module: early return.
SchedModules(p) ==
  /\ Kind(p) = "sched" /\ At(p, "modules")
  /\ \/ /\ CanFail /\ Fault
        /\ Goto(p, IdleJob)
     \/ /\ NoFault
        /\ IF AutoProcessModules = {}
             THEN Goto(p, IdleJob)
             ELSE Goto(p, [job[p] EXCEPT !.pc = "fetch"])
  /\ UNCHANGED <<timerVars, debugLogging, fixtureVars, inbox, storeVars>>

\* The batch a fetch returns; an empty batch ends the loop at once.
Fetched(p, batch) ==
  IF batch = <<>> THEN Done(p, 200)
  ELSE [job[p] EXCEPT !.pc = "dedup", !.batch = batch, !.idx = 1]

\* `if (!result.success)`: processEmails clears the flag and returns;
\* POST /process answers 400.
FetchFailedRetries(p) == job[p]
FetchFailed(p) == Done(p, 400)

\* fetchInboxEmails({ maxResults: 50, unreadOnly: true }) of a scheduled
\* pass or of POST /process: success false ends the invocation.
Fetch(p) ==
  /\ Kind(p) # "single" /\ At(p, "fetch")
  /\ \/ /\ CanFail /\ Fault
        /\ Goto(p, FetchFailed(p))
     \/ /\ NoFault
        /\ Goto(p, Fetched(p, fetchInboxEmails(MaxResults, TRUE)))
  /\ UNCHANGED <<timerVars, debugLogging, fixtureVars, inbox, storeVars>>

\* The dedup lookup: `existing` is the ledger row of the message, if any.
AlreadyProcessedNever(e) == FALSE
AlreadyProcessed(e) == LedgerHas(e)

\* processEmails: the dedup lookup (outside the per-message try: a throw
\* ends the pass), the tag parse and the auto-process module match.
SchedDedup(p) ==
  /\ Kind(p) = "sched" /\ At(p, "dedup")
  /\ \/ /\ CanFail /\ Fault
        /\ Goto(p, IdleJob)
     \/ /\ NoFault
        /\ LET e == Cur(p)
               parsed == parseModuleTagFromSubject(inbox[e])
               m == FindAutoModule(parsed.moduleName)
           IN IF AlreadyProcessed(e) \/ parsed.moduleName = "" \/ m = 0
                THEN Goto(p, NextMsg(p))
                ELSE Goto(p, [job[p] EXCEPT !.pc = "insertRecord", !.mod = m])
  /\ UNCHANGED <<timerVars, debugLogging, fixtureVars, inbox, storeVars>>


(***************************************************************************)
(* POST /process (process-now).                                            *)
(***************************************************************************)
NowRequest(p) ==
  /\ Kind(p) = "now" /\ At(p, "idle")
  /\ booted
  /\ job' = [job EXCEPT ![p] = [IdleJob EXCEPT !.pc = "fetch", !.origin = "request"]]
  /\ UNCHANGED <<timerVars, isProcessing, debugLogging, fixtureVars, inbox, storeVars,
                 faultBudget>>

\* The dedup lookup and the tag parse.  No tag: the skipped row is written next.
NowDedup(p) ==
  /\ Kind(p) = "now" /\ At(p, "dedup")
  /\ \/ /\ CanFail /\ Fault
        /\ Goto(p, Done(p, 500))
     \/ /\ NoFault
        /\ LET e == Cur(p)
               parsed == parseModuleTagFromSubject(inbox[e])
           IN IF AlreadyProcessed(e) THEN Goto(p, NextOf(p, Push(p, "skipped")))
              ELSE IF parsed.moduleName = ""
                THEN Goto(p, [job[p] EXCEPT !.pc = "routeRow", !.row = "notag"])
                ELSE Goto(p, [job[p] EXCEPT !.pc = "findModule",
                                            !.target = parsed.moduleName])
  /\ UNCHANGED <<timerVars, debugLogging, fixtureVars, inbox, storeVars>>

\* The module lookup of POST /process and the enableEmailInbox test.
NowFindModule(p) ==
  /\ Kind(p) = "now" /\ At(p, "findModule")
  /\ \/ /\ CanFail /\ Fault
        /\ Goto(p, Done(p, 500))
     \/ /\ NoFault
        /\ LET m == FindActiveModule(job[p].target)
           IN IF m = 0
                THEN Goto(p, [job[p] EXCEPT !.pc = "routeRow", !.row = "notfound"])
                ELSE IF ~EnableEmailInbox(m)
                  THEN Goto(p, [job[p] EXCEPT !.pc = "routeRow", !.row = "disabled",
                                              !.mod = m])
                  ELSE Goto(p, [job[p] EXCEPT !.pc = "insertRecord", !.mod = m])
  /\ UNCHANGED <<timerVars, debugLogging, fixtureVars, inbox, storeVars>>

RouteRow(p) ==
  LET e == Cur(p) IN
  CASE job[p].row = "notag" ->
         LedgerRow(e, 0, 0, "skipped", "No module tag in subject")
    [] job[p].row = "notfound" ->
         LedgerRow(e, 0, 0, "error", "Module not found")
    [] OTHER ->
         LedgerRow(e, job[p].mod, 0, "skipped", "Email inbox not enabled for module")

\* The INSERT of a skipped / error row; a rejected insert throws out of the
\* handler (no per-message catch in POST /process).
NowRouteRow(p) ==
  /\ Kind(p) = "now" /\ At(p, "routeRow")
  /\ \/ /\ CanFail /\ Fault
        /\ Goto(p, Done(p, 500))
        /\ UNCHANGED processed_emails
     \/ /\ NoFault
        /\ IF UniqueEmailId(Cur(p))
             THEN /\ processed_emails' = Append(processed_emails, RouteRow(p))
                  /\ Goto(p, NextOf(p, Push(p, IF job[p].row = "notfound"
                                                THEN "errors" ELSE "skipped")))
             ELSE /\ UNCHANGED processed_emails
                  /\ Goto(p, Done(p, 500))
  /\ UNCHANGED <<timerVars, debugLogging, fixtureVars, inbox, module_records, record_files,
                 record_links, record_history, outbox>>

(***************************************************************************)
(* POST /process-single/:emailId                                           *)
(***************************************************************************)
\* The request names the message and, optionally, the module (body.moduleName).
SingleRequest(p, e, name) ==
  /\ Kind(p) = "single" /\ At(p, "idle")
  /\ booted
  /\ job' = [job EXCEPT ![p] = [IdleJob EXCEPT !.pc = "fetch", !.origin = "request",
                                               !.eid = e, !.target = name]]
  /\ UNCHANGED <<timerVars, isProcessing, debugLogging, fixtureVars, inbox, storeVars,
                 faultBudget>>

\* fetchInboxEmails({ maxResults: 100, unreadOnly: false }) and the find by id.
SingleFetch(p) ==
  /\ Kind(p) = "single" /\ At(p, "fetch")
  /\ \/ /\ CanFail /\ Fault
        /\ Goto(p, Done(p, 400))
     \/ /\ NoFault
        /\ IF \E i \in DOMAIN fetchInboxEmails(MaxResultsSingle, FALSE) :
                fetchInboxEmails(MaxResultsSingle, FALSE)[i] = job[p].eid
             THEN Goto(p, [job[p] EXCEPT !.pc = "dedup"])
             ELSE Goto(p, Done(p, 404))
  /\ UNCHANGED <<timerVars, debugLogging, fixtureVars, inbox, storeVars>>

\* The ledger pre-check (400 'Email already processed') and the target
\* module: the one provided, else the subject's tag.
SingleDedup(p) ==
  /\ Kind(p) = "single" /\ At(p, "dedup")
  /\ \/ /\ CanFail /\ Fault
        /\ Goto(p, Done(p, 500))
     \/ /\ NoFault
        /\ LET targetModule ==
                 IF job[p].target # "" THEN job[p].target
                 ELSE parseModuleTagFromSubject(inbox[Cur(p)]).moduleName
           IN IF AlreadyProcessed(Cur(p)) \/ targetModule = ""
                THEN Goto(p, Done(p, 400))
                ELSE Goto(p, [job[p] EXCEPT !.pc = "findModule", !.target = targetModule])
  /\ UNCHANGED <<timerVars, debugLogging, fixtureVars, inbox, storeVars>>

\* The module lookup of process-single: 404 when there is no active module
\* of that name; the config is not consulted.
SingleFindModule(p) ==
  /\ Kind(p) = "single" /\ At(p, "findModule")
  /\ \/ /\ CanFail /\ Fault
        /\ Goto(p, Done(p, 500))
     \/ /\ NoFault
        /\ LET m == FindActiveModule(job[p].target)
           IN IF m = 0 THEN Goto(p, Done(p, 404))
              ELSE Goto(p, [job[p] EXCEPT !.pc = "insertRecord", !.mod = m])
  /\ UNCHANGED <<timerVars, debugLogging, fixtureVars, inbox, storeVars>>


(***************************************************************************)
(* Record creation onward: the same statements in processEmails,           *)
(* POST /process and POST /process-single.                                 *)
(***************************************************************************)
\* The module_records row: name = cleanSubject || 'Email'; `email` stands for
\* the data fields copied from the message (email_from, email_received_at).
RecordRowRawSubject(p) ==
  LET clean == parseModuleTagFromSubject(inbox[Cur(p)]).cleanSubject IN
  [module_id |-> job[p].mod, name |-> clean, email_subject |-> clean, email |-> Cur(p)]
RecordRow(p) ==
  LET clean == parseModuleTagFromSubject(inbox[Cur(p)]).cleanSubject IN
  [module_id |-> job[p].mod,
   name |-> IF clean # "" THEN clean ELSE "Email",
   email_subject |-> clean,
   email |-> Cur(p)]

\* INSERT INTO module_records; recordId = lastInsertRowid.
InsertRecord(p) ==
  /\ At(p, "insertRecord")
  /\ \/ /\ CanFail /\ Fault
        /\ Goto(p, Thrown(p))
        /\ UNCHANGED module_records
     \/ /\ NoFault
        /\ Len(module_records) < MaxRecords
        /\ module_records' = Append(module_records, RecordRow(p))
        /\ Goto(p, [job[p] EXCEPT !.pc = "insertLedger", !.rec = Len(module_records) + 1])
  /\ UNCHANGED <<timerVars, debugLogging, fixtureVars, inbox, processed_emails, record_files,
                 record_links, record_history, outbox>>

\* INSERT INTO processed_emails (..., 'processed'): rejected by the UNIQUE
\* constraint when the ledger already holds the message.
LedgerRejectedGoesOn(p) == [job[p] EXCEPT !.pc = "attach"]
LedgerRejected(p) == Thrown(p)

InsertLedger(p) ==
  /\ At(p, "insertLedger")
  /\ \/ /\ CanFail /\ Fault
        /\ Goto(p, LedgerRejected(p))
        /\ UNCHANGED processed_emails
     \/ /\ NoFault
        /\ IF UniqueEmailId(Cur(p))
             THEN /\ processed_emails' = Append(processed_emails,
                       LedgerRow(Cur(p), job[p].mod, job[p].rec, "processed", ""))
                  /\ Goto(p, [job[p] EXCEPT !.pc = "attach"])
             ELSE /\ UNCHANGED processed_emails
                  /\ Goto(p, LedgerRejected(p))
  /\ UNCHANGED <<timerVars, debugLogging, fixtureVars, inbox, module_records, record_files,
                 record_links, record_history, outbox>>

\* saveAttachments / saveEmailAttachments: getEmailAttachments; a failed or
\* empty listing saves nothing.
AttachList(p) ==
  /\ At(p, "attach")
  /\ \/ /\ CanFail /\ Fault
        /\ Goto(p, [job[p] EXCEPT !.pc = "links"])
     \/ /\ NoFault
        /\ IF inbox[Cur(p)].atts = <<>>
             THEN Goto(p, [job[p] EXCEPT !.pc = "links"])
             ELSE Goto(p, [job[p] EXCEPT !.pc = "attachOne", !.att = 1])
  /\ UNCHANGED <<timerVars, debugLogging, fixtureVars, inbox, storeVars>>

\* One turn of the attachment loop: download, write the file, insert the
\* row.  A failure is caught per attachment; the loop goes on.
AfterAttachmentAborts(p, saved) ==
  IF saved = 0 THEN Thrown(p)
  ELSE IF job[p].att < Len(inbox[Cur(p)].atts)
    THEN [job[p] EXCEPT !.att = @ + 1, !.files = @ + saved]
    ELSE [job[p] EXCEPT !.pc = "links", !.files = @ + saved]
AfterAttachment(p, saved) ==
  IF job[p].att < Len(inbox[Cur(p)].atts)
    THEN [job[p] EXCEPT !.att = @ + 1, !.files = @ + saved]
    ELSE [job[p] EXCEPT !.pc = "links", !.files = @ + saved]

AttachOne(p) ==
  /\ At(p, "attachOne")
  /\ \/ /\ CanFail /\ Fault
        /\ Goto(p, AfterAttachment(p, 0))
        /\ UNCHANGED record_files
     \/ /\ NoFault
        /\ record_files' = record_files \cup
             {[record_id |-> job[p].rec, file_name |-> inbox[Cur(p)].atts[job[p].att]]}
        /\ Goto(p, AfterAttachment(p, 1))
  /\ UNCHANGED <<timerVars, debugLogging, fixtureVars, inbox, processed_emails,
                 module_records, record_links, record_history, outbox>>

\* saveLinks / saveEmailLinks: one INSERT per extracted link, a failed
\* insert is ignored.
SaveLinks(p) ==
  /\ At(p, "links")
  /\ \E lost \in SUBSET LinksToSave(p, Cur(p)) :
       /\ \/ lost = {} /\ NoFault
          \/ Cardinality(lost) = 1 /\ CanFail /\ Fault
       /\ record_links' = record_links \cup
            {[record_id |-> job[p].rec, url |-> u] : u \in LinksToSave(p, Cur(p)) \ lost}
       /\ Goto(p, [job[p] EXCEPT !.pc = "history",
                                 !.links = Cardinality(LinksToSave(p, Cur(p)) \ lost)])
  /\ UNCHANGED <<timerVars, debugLogging, fixtureVars, inbox, processed_emails,
                 module_records, record_files, record_history, outbox>>

\* INSERT INTO record_history (..., 'created', ...).
History(p) ==
  /\ At(p, "history")
  /\ \/ /\ CanFail /\ Fault
        /\ Goto(p, Thrown(p))
        /\ UNCHANGED record_history
     \/ /\ NoFault
        /\ record_history' = record_history \cup
             {[record_id |-> job[p].rec, action |-> "created", via |-> Kind(p),
               files |-> job[p].files, links |-> job[p].links]}
        /\ Goto(p, [job[p] EXCEPT !.pc = "respond"])
  /\ UNCHANGED <<timerVars, debugLogging, fixtureVars, inbox, processed_emails,
                 module_records, record_files, record_links, outbox>>

\* `if (autoResponseResult.success)` is false: no 'email_sent' entry, on to
\* markEmailAsRead.
SendFailedThrows(p) == Thrown(p)
SendFailed(p) == [job[p] EXCEPT !.pc = "markRead"]

\* sendAutoResponseEmail: never throws; success false when the send fails.
Respond(p) ==
  /\ At(p, "respond")
  /\ \/ /\ CanFail /\ Fault
        /\ Goto(p, SendFailed(p))
        /\ UNCHANGED outbox
     \/ /\ NoFault
        /\ outbox' = outbox \cup {[to |-> Cur(p), record_id |-> job[p].rec]}
        /\ Goto(p, [job[p] EXCEPT !.pc = "sentHistory"])
  /\ UNCHANGED <<timerVars, debugLogging, fixtureVars, inbox, processed_emails,
                 module_records, record_files, record_links, record_history>>

\* INSERT INTO record_history (..., 'email_sent', ...).
SentHistory(p) ==
  /\ At(p, "sentHistory")
  /\ \/ /\ CanFail /\ Fault
        /\ Goto(p, Thrown(p))
        /\ UNCHANGED record_history
     \/ /\ NoFault
        /\ record_history' = record_history \cup
             {[record_id |-> job[p].rec, action |-> "email_sent", via |-> "system",
               files |-> 0, links |-> 0]}
        /\ Goto(p, [job[p] EXCEPT !.pc = "markRead"])
  /\ UNCHANGED <<timerVars, debugLogging, fixtureVars, inbox, processed_emails,
                 module_records, record_files, record_links, outbox>>

\* markEmailAsRead: never throws; on failure the message stays unread.
\* Then the loop (or the request) goes on.
MarkRead(p) ==
  /\ At(p, "markRead")
  /\ \/ /\ CanFail /\ Fault
        /\ UNCHANGED inbox
     \/ /\ NoFault
        /\ inbox' = [inbox EXCEPT ![Cur(p)].isRead = TRUE]
  /\ Goto(p, NextOf(p, Push(p, "processed")))
  /\ UNCHANGED <<timerVars, debugLogging, fixtureVars, storeVars>>

\* The answer of a request handler leaves (res.json / res.status(code).json):
\* the request is over.
Reply(p) ==
  /\ Kind(p) # "sched" /\ At(p, "reply")
  /\ job' = [job EXCEPT ![p] = IdleJob]
  /\ UNCHANGED <<timerVars, isProcessing, debugLogging, fixtureVars, inbox, storeVars,
                 faultBudget>>

(***************************************************************************)
(* Initial states and specifications.                                      *)
(***************************************************************************)
InitInbox(boxes, interval, budget, fixtures) ==
  /\ processorInterval = 0
  /\ isProcessing = FALSE
  /\ debugLogging = FALSE
  /\ timers = {}
  /\ timerSeq = 0
  /\ calls = [c \in CallSlots |-> IdleCall]
  /\ booted = FALSE
  /\ settings \in {[enable_debug_logging |-> "true", email_check_interval_minutes |-> i] :
                     i \in interval}
  /\ modules \in fixtures
  /\ inbox \in boxes
  /\ processed_emails = <<>>
  /\ module_records = <<>>
  /\ record_files = {}
  /\ record_links = {}
  /\ record_history = {}
  /\ outbox = {}
  /\ job = [p \in Procs |-> IdleJob]
  /\ faultBudget = budget

InitFixtures(messages, interval, budget, fixtures) ==
  InitInbox([EmailIds -> messages], interval, budget, fixtures)

InitPipeline(messages, interval, budget) ==
  InitFixtures(messages, interval, budget, {ModuleFixture})

InitState(messages, interval, budget) ==
  /\ InitPipeline(messages, interval, budget)
  /\ subject = <<>>
  /\ tagResult = NotParsed

SchedStep(P) ==
  \/ \E p \in P : SchedGuard(p) \/ SchedModules(p) \/ SchedDedup(p)
  \/ \E t \in timers : Tick(t, P)

RecordStep(P) ==
  \E p \in P :
    \/ InsertRecord(p)
    \/ InsertLedger(p)
    \/ AttachList(p)
    \/ AttachOne(p)
    \/ SaveLinks(p)
    \/ History(p)
    \/ Respond(p)
    \/ SentHistory(p)
    \/ MarkRead(p)

FetchStep(P) == \E p \in P : Fetch(p)

ReplyStep(P) == \E p \in P : Reply(p)

NowStep == \E p \in NowProcs : NowRequest(p) \/ NowDedup(p) \/ NowFindModule(p) \/ NowRouteRow(p)

SingleStep ==
  \E p \in SingleProcs :
    \/ \E e \in EmailIds, name \in {"", "sales"} : SingleRequest(p, e, name)
    \/ SingleFetch(p)
    \/ SingleDedup(p)
    \/ SingleFindModule(p)

\* The server with its scheduler and operators using both request
\* endpoints; the collaborators do not fail.
Init == InitState({MsgSupport, MsgNoTag}, {1}, 0)
Next ==
  \/ StartServer
  \/ \E c \in CallSlots : StartAfterLoad(c, {"s1"})
  \/ SchedStep({"s1"})
  \/ NowStep
  \/ SingleStep
  \/ FetchStep({"s1"} \cup NowProcs)
  \/ RecordStep(Procs)
  \/ ReplyStep(NowProcs \cup SingleProcs)
Spec == Init /\ [][Next]_vars

\* The scheduler and the process-single endpoint only.
NextSingle ==
  \/ StartServer
  \/ \E c \in CallSlots : StartAfterLoad(c, {"s1"})
  \/ SchedStep({"s1"})
  \/ SingleStep
  \/ FetchStep({"s1"})
  \/ RecordStep({"s1"} \cup SingleProcs)
  \/ ReplyStep(SingleProcs)
SpecSingle == Init /\ [][NextSingle]_vars

\* Scheduled passes only, one after the other, with failing collaborators.
InitPass == InitState({MsgSupport, MsgNoTag}, {1}, MaxFailures)
NextPass ==
  \/ StartServer
  \/ \E c \in CallSlots : StartAfterLoad(c, {"s1"})
  \/ SchedStep({"s1"})
  \/ FetchStep({"s1"})
  \/ RecordStep({"s1"})
SpecPass == InitPass /\ [][NextPass]_vars

\* Operators using both request endpoints at once, with failing
\* collaborators and no scheduler (email_check_interval_minutes = 0).
InitRequests == InitState({MsgSupport, MsgNoTag}, {0}, MaxFailures)
NextRequests ==
  \/ StartServer
  \/ NowStep
  \/ SingleStep
  \/ FetchStep(NowProcs)
  \/ RecordStep(NowProcs \cup SingleProcs)
  \/ ReplyStep(NowProcs \cup SingleProcs)
SpecRequests == InitRequests /\ [][NextRequests]_vars

\* Scheduled passes and POST /process over a mailbox of every kind of
\* subject: tagged for each module row, tagged for no module, untagged.
InitRoute ==
  InitState({MsgSupport, MsgSupportPlain, MsgNoTag, MsgSales, MsgUnknown, MsgArchive,
             MsgLegacy, MsgBroken}, {1}, 0)
NextRoute ==
  \/ StartServer
  \/ \E c \in CallSlots : StartAfterLoad(c, {"s1"})
  \/ SchedStep({"s1"})
  \/ NowStep
  \/ FetchStep({"s1"} \cup NowProcs)
  \/ RecordStep({"s1"} \cup NowProcs)
  \/ ReplyStep(NowProcs)
SpecRoute == InitRoute /\ [][NextRoute]_vars

\* An operator using POST /process-single only, with failing collaborators.
InitManual == InitState({MsgSupport, MsgArchive, MsgNoTag}, {0}, MaxFailures)
NextManual ==
  \/ StartServer
  \/ SingleStep
  \/ RecordStep(SingleProcs)
  \/ ReplyStep(SingleProcs)
SpecManual == InitManual /\ [][NextManual]_vars

\* A scheduled pass and POST /process over messages with attachments, with
\* failing collaborators.
InitAttach == InitState({MsgTwoFiles, MsgNoTag}, {1}, MaxFailures)
SpecAttach == InitAttach /\ [][NextRoute]_vars

\* A scheduled pass and POST /process over messages whose bodies hold
\* anchors of every kind the link filters look at.
InitLinks == InitState({MsgLinks, MsgNoTag}, {1}, 0)
SpecLinks == InitLinks /\ [][NextRoute]_vars

\* Scheduled passes with failing collaborators, with or without an
\* auto-process module, over a mailbox with at most one tagged message.  Every
\* collaborator call of the pass in flight returns or throws: its next step
\* is taken in the end.
InitFlag ==
  /\ InitFixtures({MsgSupport, MsgNoTag}, {1}, MaxFailures, {ModuleFixture, ModuleFixtureNoAuto})
  /\ subject = <<>>
  /\ tagResult = NotParsed
  /\ Cardinality({e \in EmailIds : inbox[e].tag # ""}) <= 1
PassStep(P) ==
  \/ \E p \in P : SchedModules(p) \/ SchedDedup(p)
  \/ FetchStep(P)
  \/ RecordStep(P)
NextFlag ==
  \/ StartServer
  \/ \E c \in CallSlots : StartAfterLoad(c, SchedProcs)
  \/ \E p \in SchedProcs : SchedGuard(p)
  \/ \E t \in timers : Tick(t, SchedProcs)
  \/ PassStep(SchedProcs)
SpecFlag == InitFlag /\ [][NextFlag]_vars /\ WF_vars(PassStep(SchedProcs))

\* A mailbox with a backlog: the oldest message and the newest one are tagged
\* for the auto-process module, and between them lie as many untagged
\* messages as one fetch returns.  The scheduler keeps running: every step
\* that can be taken is taken in the end.
BacklogIds == 1..(MaxResults + 2)
BacklogInbox ==
  [e \in BacklogIds |-> IF e = 1 \/ e = MaxResults + 2 THEN MsgSupport ELSE MsgNoTag]
InitBacklog ==
  /\ InitInbox({BacklogInbox}, {1}, 0, {ModuleFixture})
  /\ subject = <<>>
  /\ tagResult = NotParsed
SpecBacklog == InitBacklog /\ [][NextPass]_vars /\ WF_vars(NextPass)

\* A scheduled pass and POST /process over the same kinds of message, every
\* module having enableEmailInbox and autoProcessEmails, nothing failing.
InitEngines ==
  /\ InitInbox([EmailIds -> {MsgLinks, MsgNoTag}], {1}, 0, {ModuleFixtureAllAuto})
  /\ subject = <<>>
  /\ tagResult = NotParsed
SpecEngines == InitEngines /\ [][NextRoute]_vars

\* The tag parser called on every subject text.
InitParse ==
  /\ InitPipeline({MsgNoTag}, {0}, 0)
  /\ subject \in Subjects
  /\ tagResult = NotParsed
NextParse == ParseSubject
SpecParse == InitParse /\ [][NextParse]_vars

\* The scheduler API called at any time, in any interleaving.
InitSched == InitState({MsgNoTag}, {0, 1}, MaxFailures)
NextSched ==
  \/ StartServer
  \/ \E c \in CallSlots, n \in Intervals : StartCall(c, n)
  \/ \E c \in CallSlots : StartAfterLoad(c, SchedProcs)
  \/ StopCall
  \/ \E c \in CallSlots, n \in Intervals : UpdateCall(c, n)
  \/ \E c \in CallSlots : UpdateAfterLoad(c)
  \/ SchedStep(SchedProcs)
  \/ FetchStep(SchedProcs)
SpecSched == InitSched /\ [][NextSched]_vars


(***************************************************************************)
(* Claims.                                                                 *)
(***************************************************************************)
RecordsOf(e) == {i \in DOMAIN module_records : module_records[i].email = e}

\* A pass is executing once it holds the batch it fetched.
Executing(p) == job[p].batch # <<>>

\* A scheduled invocation is in flight between setting the flag and the end
\* of processEmails.
InFlight == {p \in SchedProcs : job[p].pc \notin {"idle", "load"}}

\* C1: the ledger never holds two rows with the same emailId, under every
\* interleaving of scheduled passes, process-now and process-single requests.
C1_LedgerUnique ==
  \A i, k \in DOMAIN processed_emails :
    i # k => processed_emails[i].email_id # processed_emails[k].email_id

\* C1 witness: an invocation is about to insert a ledger row for a message
\* another invocation has already ledgered.
C1_Witness ==
  \E p \in Procs : job[p].pc = "insertLedger" /\ LedgerHas(Cur(p))

\* C2: a pass (scheduled or process-now) that reaches a message already in
\* the ledger moves on to the next message (or ends) and writes nothing: no
\* ledger row, record, attachment, link, history entry or auto-response, and
\* the message is not marked read.
C2_DedupSkips ==
  [][\A p \in SchedProcs \cup NowProcs :
       (job[p].pc = "dedup" /\ LedgerHas(Cur(p)) /\ job'[p] # job[p])
         => /\ job'[p].pc \in {"dedup", "idle", "reply"}
            /\ job'[p].pc = "dedup" => job'[p].idx = job[p].idx + 1
            /\ job'[p].pc = "reply" => job'[p].code = 200
            /\ UNCHANGED <<storeVars, inbox>>]_vars

\* C2 witness: a pass stands at the dedup lookup of a message that is in the
\* ledger while the mailbox still reports it unread.
C2_Witness ==
  \E p \in SchedProcs \cup NowProcs :
    job[p].pc = "dedup" /\ LedgerHas(Cur(p)) /\ ~inbox[Cur(p)].isRead

\* C3 (as claimed): with a process-single request and a scheduled pass
\* interleaved, at most one module record exists per emailId.
C3_OneRecordPerEmail ==
  \A e \in EmailIds : Cardinality(RecordsOf(e)) <= 1

\* C4 (as claimed): across passes in which a database write may fail, no two
\* module records come from the same message.
C4_RecordAndLedgerAtomic ==
  \A i, k \in DOMAIN module_records :
    i # k => module_records[i].email # module_records[k].email

\* C5: at most one scheduled pass is in flight, the flag is set exactly while
\* one is, and an invocation that finds the flag set ends at once: it keeps
\* the flag, fetches nothing, writes nothing and leaves no trace to run later.
C5_SingleFlight ==
  /\ [](Cardinality(InFlight) <= 1 /\ (isProcessing <=> InFlight # {}))
  /\ [][\A p \in SchedProcs :
          (job[p].pc = "load" /\ isProcessing /\ job'[p] # job[p])
            => /\ job'[p] = IdleJob
               /\ isProcessing'
               /\ \A q \in Procs \ {p} : job'[q] = job[q]
               /\ UNCHANGED <<storeVars, inbox, timerVars>>]_vars

\* C5 witness: a tick's invocation stands at the guard while a pass is in flight.
C5_Witness ==
  \E p, q \in SchedProcs :
    /\ job[p].pc = "load" /\ job[p].origin = "tick"
    /\ job[q].pc \in {"fetch", "dedup"}
    /\ isProcessing

\* C6 (as claimed): at most one pass, scheduled or process-now, is executing.
C6_OnePassAtATime ==
  Cardinality({p \in SchedProcs \cup NowProcs : Executing(p)}) <= 1

C8_StartZeroStops ==
  [][\A c \in CallSlots :
       (/\ calls[c].pc = "start_load" /\ calls[c].via = "start"
        /\ calls[c].n <= 0 /\ calls'[c].pc = "idle")
         => /\ timers' \cap calls[c].before = {}
            /\ processorInterval' \notin TimerIds(calls[c].before)
            /\ job' = job]_vars

\* C9 (as claimed): stop() leaves no timer armed and the handle empty, a
\* second stop() changes nothing, and the in-flight flag is untouched.
C9_StopIdempotent ==
  [][StopCall
       => /\ timers' = {}
          /\ processorInterval' = 0
          /\ stopEmailProcessor(Sched)' = Sched'
          /\ isProcessing' = isProcessing]_vars

LedgerRowsOf(e) == {i \in DOMAIN processed_emails : processed_emails[i].email_id = e}

\* A pass (scheduled or process-now) is done with the message it was on: it
\* moves to the next message of its batch or ends.
MovesOn(p) ==
  /\ job[p].batch # <<>>
  /\ job[p].pc \notin {"idle", "reply"}
  /\ \/ job'[p].pc \in {"idle", "reply"}
     \/ job'[p].idx # job[p].idx

\* The subject carries a tag and no active module has that name.
NoActiveModule(e) ==
  /\ inbox[e].tag # ""
  /\ \A i \in DOMAIN modules :
       modules[i].is_active => ToLowerCase(modules[i].name) # ToLowerCase(inbox[e].tag)

\* C11 (as claimed): when a pass, scheduled or process-now, is done with a
\* message whose tag names no active module, the ledger holds exactly one row
\* for the message, with status error and an error message, and no record
\* was made from the message.
C11_UnknownModuleErrorRow ==
  [][\A p \in SchedProcs \cup NowProcs, e \in EmailIds :
       (MovesOn(p) /\ Cur(p) = e /\ NoActiveModule(e))
         => /\ Cardinality(LedgerRowsOf(e)') = 1
            /\ \A i \in LedgerRowsOf(e)' :
                 /\ processed_emails'[i].status = "error"
                 /\ processed_emails'[i].error_message # ""
            /\ RecordsOf(e)' = {}]_vars

\* C12 (as claimed): when a pass, scheduled or process-now, is done with a
\* message whose subject has no leading tag, the ledger holds one row for it:
\* status skipped, "No module tag in subject", no module, no record.
C12_NoTagSkippedRow ==
  [][\A p \in SchedProcs \cup NowProcs, e \in EmailIds :
       (MovesOn(p) /\ Cur(p) = e /\ inbox[e].tag = "")
         => /\ Cardinality(LedgerRowsOf(e)') = 1
            /\ \A i \in LedgerRowsOf(e)' :
                 /\ processed_emails'[i].status = "skipped"
                 /\ processed_emails'[i].error_message = "No module tag in subject"
                 /\ processed_emails'[i].module_id = 0
                 /\ processed_emails'[i].record_id = 0]_vars

\* The tag of the message names a module row that is inactive, or whose
\* config does not parse, or lacks enableEmailInbox, or lacks autoProcessEmails.
NotAutoProcess(e) ==
  /\ inbox[e].tag # ""
  /\ \E i \in DOMAIN modules :
       /\ ToLowerCase(modules[i].name) = ToLowerCase(inbox[e].tag)
       /\ \/ ~modules[i].is_active
          \/ ~modules[i].config.parses
          \/ ~modules[i].config.enableEmailInbox
          \/ ~modules[i].config.autoProcessEmails

\* C13: every step a scheduled pass takes on a message tagged for such a
\* module leaves the record store, the ledger, the history, the outbox and the
\* mailbox as they are, and takes the pass to its next message or to its end.
C13_SchedOnlyAutoProcess ==
  [][\A p \in SchedProcs, e \in EmailIds :
       (/\ job[p].batch # <<>> /\ job[p].pc # "idle"
        /\ Cur(p) = e /\ NotAutoProcess(e)
        /\ job'[p] # job[p])
         => /\ UNCHANGED <<storeVars, inbox>>
            /\ job[p].pc = "dedup"
            /\ job'[p].pc \in {"dedup", "idle"}
            /\ job'[p].pc = "dedup" => job'[p].idx = job[p].idx + 1]_vars

\* C13 witness: a scheduled pass stands at an unread, un-ledgered message
\* tagged for a module that has enableEmailInbox but not autoProcessEmails.
C13_Witness ==
  \E p \in SchedProcs :
    /\ job[p].pc = "dedup"
    /\ inbox[Cur(p)].tag = "SALES"
    /\ ~LedgerHas(Cur(p)) /\ ~inbox[Cur(p)].isRead

\* C14 (as claimed): a process-single request that has found its message
\* un-ledgered goes on to create the record exactly when an active module of
\* the target name exists and its config parses with enableEmailInbox set.
C14_SingleNeedsEnableEmailInbox ==
  [][\A p \in SingleProcs :
       (job[p].pc = "findModule" /\ job'[p] # job[p] /\ faultBudget' = faultBudget)
         => (job'[p].pc = "insertRecord"
               <=> \E i \in DOMAIN modules :
                     /\ ToLowerCase(modules[i].name) = ToLowerCase(job[p].target)
                     /\ modules[i].is_active
                     /\ modules[i].config.parses
                     /\ modules[i].config.enableEmailInbox)]_vars

\* C15: every step of a process-single request whose message is in the
\* ledger leaves the stores and the mailbox as they are; the request does not
\* get past its ledger lookup and is answered with an error status.
C15_SingleRejectsLedgered ==
  [][\A p \in SingleProcs :
       (/\ job[p].pc \in {"fetch", "dedup"} /\ LedgerHas(job[p].eid)
        /\ job'[p] # job[p])
         => /\ UNCHANGED <<storeVars, inbox>>
            /\ job'[p].pc \in {"dedup", "reply"}
            /\ job[p].pc = "dedup" => job'[p].pc = "reply"
            /\ job'[p].pc = "reply" => job'[p].code >= 400]_vars

\* C15 witness: with no collaborator failure, a request for a ledgered,
\* tagged message has been answered 400 at the ledger lookup.
C15_Witness ==
  \E p \in SingleProcs :
    /\ job[p].pc = "reply" /\ job[p].code = 400
    /\ LedgerHas(job[p].eid)
    /\ inbox[job[p].eid].tag # ""
    /\ faultBudget = MaxFailures

\* The tag of the message names an active module whose config parses and has
\* both enableEmailInbox and autoProcessEmails.
AutoProcessTag(e) ==
  /\ inbox[e].tag # ""
  /\ \E i \in DOMAIN modules :
       /\ ToLowerCase(modules[i].name) = ToLowerCase(inbox[e].tag)
       /\ modules[i].is_active /\ modules[i].config.parses
       /\ modules[i].config.enableEmailInbox /\ modules[i].config.autoProcessEmails

\* C16: a record insert that fails in a scheduled pass writes no ledger row
\* and leaves the mailbox alone, and the pass goes on with the next message
\* of its batch; a later pass fetches every unread message and, finding the
\* message un-ledgered, attempts the record insert again.
C16_RecordFailureRetried ==
  [][\A p \in SchedProcs :
       /\ (job[p].pc = "insertRecord" /\ job'[p] # job[p]
             /\ module_records' = module_records)
            => /\ UNCHANGED <<processed_emails, record_history, outbox, inbox>>
               /\ isProcessing' = (job[p].idx < Len(job[p].batch))
               /\ IF job[p].idx < Len(job[p].batch)
                    THEN /\ job'[p].pc = "dedup"
                         /\ job'[p].batch = job[p].batch
                         /\ job'[p].idx = job[p].idx + 1
                    ELSE job'[p].pc = "idle"
       /\ (job[p].pc = "fetch" /\ job'[p] # job[p] /\ faultBudget' = faultBudget)
            => \A e \in EmailIds :
                 ~inbox[e].isRead => \E k \in DOMAIN job'[p].batch : job'[p].batch[k] = e
       /\ (job[p].pc = "dedup" /\ job'[p] # job[p] /\ faultBudget' = faultBudget
             /\ ~LedgerHas(job[p].batch[job[p].idx])
             /\ AutoProcessTag(job[p].batch[job[p].idx]))
            => job'[p].pc = "insertRecord"]_vars

\* C16 witness: a scheduled pass is on the second message of its batch and
\* the first, tagged for an auto-process module, has no record and no ledger
\* row and is unread: its record insert failed and the pass went on.
C16_Witness ==
  \E p \in SchedProcs :
    /\ job[p].idx = 2 /\ job[p].pc \in {"dedup", "insertRecord"}
    /\ AutoProcessTag(job[p].batch[1])
    /\ RecordsOf(job[p].batch[1]) = {}
    /\ ~LedgerHas(job[p].batch[1])
    /\ ~inbox[job[p].batch[1]].isRead

\* C17: a mailbox fetch that fails in a scheduled pass ends the pass with the
\* flag cleared, no store written, the mailbox untouched and the timer still
\* armed; the invocation of the next tick finds the flag clear, passes the
\* guard with no state of the failed pass and fetches every unread message.
C17_FetchFailureAbortsPass ==
  [][\A p \in SchedProcs :
       /\ (job[p].pc = "fetch" /\ faultBudget' # faultBudget)
            => /\ job'[p] = IdleJob
               /\ ~isProcessing'
               /\ UNCHANGED <<storeVars, inbox, timers, processorInterval>>
       /\ (job[p].pc = "load" /\ job[p].origin = "tick" /\ ~isProcessing
             /\ job'[p] # job[p])
            => /\ job'[p] = [IdleJob EXCEPT !.pc = "modules", !.origin = "tick"]
               /\ isProcessing'
       /\ (job[p].pc = "fetch" /\ job'[p] # job[p] /\ faultBudget' = faultBudget)
            => \A e \in EmailIds :
                 ~inbox[e].isRead => \E k \in DOMAIN job'[p].batch : job'[p].batch[k] = e]_vars

\* C17 witness: a failure has ended an earlier pass before any write (the
\* state a failed fetch leaves), and the pass of a later tick holds the batch
\* it fetched.
C17_Witness ==
  \E p \in SchedProcs :
    /\ faultBudget < MaxFailures
    /\ job[p].origin = "tick" /\ job[p].pc = "dedup" /\ job[p].idx = 1
    /\ processed_emails = <<>> /\ module_records = <<>>
    /\ isProcessing

\* The pipeline positions a position may be entered from.
EnteredFrom(pc) ==
  CASE pc = "insertLedger" -> {"insertRecord"}
    [] pc = "attach" -> {"insertLedger"}
    [] pc = "attachOne" -> {"attach"}
    [] pc = "links" -> {"attach", "attachOne"}
    [] pc = "history" -> {"links"}
    [] pc = "respond" -> {"history"}
    [] pc = "sentHistory" -> {"respond"}
    [] pc = "markRead" -> {"respond", "sentHistory"}
    [] OTHER -> {}

\* C18: an invocation that is about to ask the mailbox to mark a message read
\* has made the record, the processed ledger row of that record and its
\* 'created' history entry, and came there through the attachment and link
\* steps and the auto-response attempt of the same message, in that order; the
\* mailbox changes only by that request; a read message has a processed row.
C18_MarkReadLast ==
  /\ [](\A p \in Procs :
          job[p].pc = "markRead"
            => /\ job[p].rec \in DOMAIN module_records
               /\ module_records[job[p].rec].email = Cur(p)
               /\ \E i \in DOMAIN processed_emails :
                    /\ processed_emails[i].email_id = Cur(p)
                    /\ processed_emails[i].status = "processed"
                    /\ processed_emails[i].record_id = job[p].rec
               /\ \E h \in record_history :
                    h.record_id = job[p].rec /\ h.action = "created")
  /\ [](\A e \in EmailIds :
          inbox[e].isRead
            => \E i \in DOMAIN processed_emails :
                 /\ processed_emails[i].email_id = e
                 /\ processed_emails[i].status = "processed")
  /\ [][/\ \A p \in Procs :
            (job'[p].pc # job[p].pc /\ EnteredFrom(job'[p].pc) # {})
              => /\ job[p].pc \in EnteredFrom(job'[p].pc)
                 /\ job'[p].batch = job[p].batch /\ job'[p].idx = job[p].idx
                 /\ job'[p].eid = job[p].eid
                 /\ job[p].pc # "insertRecord" => job'[p].rec = job[p].rec
       /\ inbox' # inbox
            => \E p \in Procs :
                 /\ job[p].pc = "markRead" /\ job'[p].pc # "markRead"
                 /\ inbox' = [inbox EXCEPT ![Cur(p)].isRead = TRUE]]_vars

\* C18 witness: in a behaviour with a collaborator failure, a request has
\* marked read the message it made a record of and has answered 200.
C18_Witness ==
  \E p \in NowProcs \cup SingleProcs :
    /\ job[p].pc = "reply" /\ job[p].code = 200 /\ job[p].rec # 0
    /\ inbox[module_records[job[p].rec].email].isRead
    /\ faultBudget < MaxFailures

\* The 'created' history entries of a record.
CreatedEntries(r) == {h \in record_history : h.record_id = r /\ h.action = "created"}

\* C19: when a pass, scheduled or process-now, finishes a message with no
\* step failed (it marks the message read), the record it made is in the
\* module the tag names, is named by the cleaned subject, or "Email" when
\* that is empty, and carries the cleaned subject; the ledger holds exactly
\* one row for the message, processed, with that module and record; the
\* record has exactly one 'created' history entry; the message is read.  A
\* pass adds records only one at a time, by its record insert.
C19_ProcessedMessage ==
  [][\A p \in SchedProcs \cup NowProcs, e \in EmailIds :
       /\ (job[p].pc = "markRead" /\ Cur(p) = e /\ job'[p] # job[p])
            => /\ \E m \in DOMAIN modules :
                    /\ ToLowerCase(modules[m].name) = ToLowerCase(inbox[e].tag)
                    /\ module_records'[job[p].rec] =
                         [module_id |-> m,
                          name |-> IF inbox[e].rest # "" THEN inbox[e].rest ELSE "Email",
                          email_subject |-> inbox[e].rest,
                          email |-> e]
                    /\ \A i \in LedgerRowsOf(e)' :
                         /\ processed_emails'[i].status = "processed"
                         /\ processed_emails'[i].module_id = m
                         /\ processed_emails'[i].record_id = job[p].rec
               /\ Cardinality(LedgerRowsOf(e)') = 1
               /\ \E r \in DOMAIN module_records :
                    r = job[p].rec /\ Cardinality(CreatedEntries(r)') = 1
               /\ inbox'[e].isRead
       /\ (job'[p] # job[p] /\ module_records' # module_records)
            => /\ job[p].pc = "insertRecord"
               /\ Len(module_records') = Len(module_records) + 1
               /\ job'[p].rec = Len(module_records')
               /\ \A i \in DOMAIN module_records : module_records'[i] = module_records[i]]_vars

\* C19 witness: a message with nothing after its tag has been processed and
\* marked read, and its record is named "Email".
C19_Witness ==
  \E e \in EmailIds, r \in DOMAIN module_records :
    /\ inbox[e].isRead /\ inbox[e].rest = ""
    /\ module_records[r].email = e /\ module_records[r].name = "Email"
    /\ \E i \in LedgerRowsOf(e) : processed_emails[i].record_id = r

\* How many of the arrays processed[], skipped[], errors[] of the answer
\* list the message.
Listed(j, e) ==
  Cardinality({k \in DOMAIN j.processed : j.processed[k] = e})
    + Cardinality({k \in DOMAIN j.skipped : j.skipped[k] = e})
    + Cardinality({k \in DOMAIN j.errors : j.errors[k] = e})

\* C20 (as claimed): a process-now request whose fetch succeeded answers 200
\* with the summary, also when a write failed for one of the messages: every
\* fetched message is in exactly one of processed[], skipped[], errors[], and
\* summary.total is the sum of the three counts.
C20_ProcessNowSummary ==
  \A p \in NowProcs :
    (job[p].pc = "reply" /\ job[p].code # 400)
      => /\ job[p].code = 200
         /\ \A k \in DOMAIN job[p].batch : Listed(job[p], job[p].batch[k]) = 1
         /\ Len(job[p].batch) =
              Len(job[p].processed) + Len(job[p].skipped) + Len(job[p].errors)

\* C21 (as claimed): a pass, scheduled or process-now, returns only after the
\* last message of its batch: no step taken on message i, failed or not,
\* ends the pass while messages i+1..n of the batch are still to be handled.
C21_PassHandlesWholeBatch ==
  [][\A p \in SchedProcs \cup NowProcs :
       (/\ job[p].batch # <<>> /\ job[p].pc \notin {"idle", "reply"}
        /\ job[p].idx < Len(job[p].batch)
        /\ job'[p] # job[p])
         => job'[p].pc \notin {"idle", "reply"}]_vars

\* The positions of a message from the attachment listing to mark-read.
AfterLedger == {"attach", "attachOne", "links", "history", "respond", "sentHistory", "markRead"}

\* C22: a turn of the attachment loop, failed or not, goes on to the next
\* attachment of the same message, or to the link step after the last one,
\* and leaves the ledger alone; while a message is anywhere from its
\* attachments to mark-read its ledger row is status=processed; the
\* attachment steps never abandon the message.
C22_AttachmentFailureIsolated ==
  /\ [][\A p \in Procs :
          /\ (job[p].pc = "attachOne" /\ job'[p] # job[p])
               => /\ IF job[p].att < Len(inbox[Cur(p)].atts)
                       THEN job'[p].pc = "attachOne" /\ job'[p].att = job[p].att + 1
                       ELSE job'[p].pc = "links"
                  /\ job'[p].rec = job[p].rec /\ job'[p].idx = job[p].idx
                  /\ job'[p].batch = job[p].batch /\ job'[p].eid = job[p].eid
                  /\ UNCHANGED <<processed_emails, module_records, inbox>>
          /\ (job[p].pc \in {"attach", "links"} /\ job'[p] # job[p])
               => /\ job'[p].pc \in {"attachOne", "links", "history"}
                  /\ job'[p].rec = job[p].rec /\ job'[p].idx = job[p].idx
                  /\ UNCHANGED <<processed_emails, module_records, inbox>>]_vars
  /\ [](\A p \in Procs :
          job[p].pc \in AfterLedger
            => \E i \in DOMAIN processed_emails :
                 /\ processed_emails[i].email_id = Cur(p)
                 /\ processed_emails[i].status = "processed"
                 /\ processed_emails[i].record_id = job[p].rec)

\* C22 witness: of the two attachments of a message one failed and the other
\* was saved; the 'created' history entry was written and the message is read.
C22_Witness ==
  \E e \in EmailIds, r \in DOMAIN module_records :
    /\ Len(inbox[e].atts) = 2 /\ inbox[e].isRead
    /\ module_records[r].email = e
    /\ Cardinality({f \in record_files : f.record_id = r}) = 1
    /\ \E h \in record_history : h.record_id = r /\ h.action = "created" /\ h.files = 1
    /\ \E i \in DOMAIN processed_emails :
         processed_emails[i].record_id = r /\ processed_emails[i].status = "processed"

\* The records an auto-response was sent for, and those with an 'email_sent'
\* history entry.
SentFor == {o.record_id : o \in outbox}
SentEntries == {h.record_id : h \in {x \in record_history : x.action = "email_sent"}}

TaggedForm(s, X, rest) ==
  /\ X # <<>> /\ \A i \in DOMAIN X : X[i] # "]"
  /\ (rest # <<>> => rest[1] # " ")
  /\ s = <<"[">> \o X \o <<"]", " ">> \o rest

\* C24 (as claimed): for a subject without a leading [...] the parser returns
\* a null tag and the subject unchanged; for a subject "[X] rest" it returns
\* the tag X with its case preserved and the clean subject "rest".
C24_TagParser ==
  tagResult.called
    => /\ TagEnd(subject) = 0
            => tagResult.moduleName = Null /\ tagResult.cleanSubject = subject
       /\ \A k \in 1..Len(subject) :
            LET X == SubSeq(subject, 2, k - 1)
                rest == SubSeq(subject, k + 2, Len(subject))
            IN TaggedForm(subject, X, rest)
                 => tagResult.moduleName = X /\ tagResult.cleanSubject = rest

\* The position of the first occurrence of u in the anchors q (0: none).
FirstAt(q, u) ==
  IF \E i \in DOMAIN q : q[i] = u
    THEN CHOOSE i \in DOMAIN q : q[i] = u /\ \A k \in 1..(i - 1) : q[k] # u
    ELSE 0

\* The list holds no URL twice and keeps the order of the first occurrences
\* in the anchors.
FirstOccurrencesInOrder(q, links) ==
  \A i, k \in DOMAIN links :
    i < k => links[i] # links[k] /\ FirstAt(q, links[i]) < FirstAt(q, links[k])

\* C25 (as claimed): no persisted link starts with one of the skipped
\* prefixes, contains unsubscribe, tracking, click. or emailtracking, or is
\* longer than 2000 characters, whichever of the scheduled pass and the
\* request endpoints saved it; the lists both extractors build hold no URL
\* twice and keep document order.
C25_PersistedLinksFiltered ==
  /\ \A l \in record_links :
       /\ ~UrlInfo(l.url).skipPrefix
       /\ UrlInfo(l.url).words \cap {"unsubscribe", "tracking", "click.", "emailtracking"} = {}
       /\ UrlInfo(l.url).len <= MaxUrlLength
  /\ \A e \in EmailIds :
       /\ FirstOccurrencesInOrder(inbox[e].hrefs, ExtractLinksProcessor(inbox[e].hrefs))
       /\ FirstOccurrencesInOrder(inbox[e].hrefs, ExtractLinksRoutes(inbox[e].hrefs))

\* The steps that can be the last one of a message: the skips after the
\* lookups, the skipped / error row, mark-read, and, in the scheduled pass, a
\* write that failed inside the per-message try.
LastStep(p) ==
  \/ job[p].pc \in {"dedup", "routeRow", "markRead"}
  \/ /\ Kind(p) = "sched"
     /\ job[p].pc \in {"insertRecord", "insertLedger", "history", "sentHistory"}
     /\ UNCHANGED storeVars

\* C26: a pass holds the batch in the order the mailbox returned it (newest
\* first) and keeps it; it is on one message at a time; its steps stay on
\* message i until a last step of message i has finished or failed, and
\* only then does it start message i + 1 at the ledger lookup.
C26_OneMessageAtATime ==
  [][\A p \in SchedProcs \cup NowProcs :
       /\ (job[p].pc = "fetch" /\ job'[p].batch # <<>>)
            => /\ job'[p].batch = fetchInboxEmails(MaxResults, TRUE)
               /\ \A i, k \in DOMAIN job'[p].batch :
                    i < k => job'[p].batch[i] > job'[p].batch[k]
               /\ job'[p].idx = 1 /\ job'[p].pc = "dedup"
       /\ (job[p].batch # <<>> /\ job'[p] # job[p] /\ job'[p].pc \notin {"idle", "reply"})
            => /\ job'[p].batch = job[p].batch
               /\ job'[p].idx \in {job[p].idx, job[p].idx + 1}
               /\ job'[p].idx = job[p].idx + 1 <=> job'[p].pc = "dedup"
               /\ job'[p].idx = job[p].idx + 1 => LastStep(p)
       /\ (job[p].batch # <<>> /\ job'[p].pc \in {"idle", "reply"}
             /\ job[p].pc \notin {"idle", "reply"} /\ faultBudget' = faultBudget
             /\ ~(job[p].pc \in {"insertLedger", "routeRow"} /\ UNCHANGED processed_emails))
            => job[p].idx = Len(job[p].batch) /\ LastStep(p)]_vars

\* C26 witness: a pass is in the middle of the second message of its batch
\* and the first one is processed and read.
C26_Witness ==
  \E p \in SchedProcs \cup NowProcs :
    /\ job[p].idx = 2 /\ job[p].pc = "insertLedger"
    /\ \E i \in DOMAIN processed_emails :
         /\ processed_emails[i].email_id = job[p].batch[1]
         /\ processed_emails[i].status = "processed"
    /\ inbox[job[p].batch[1]].isRead

\* C27: a scheduled pass that has set the in-flight flag clears it in the
\* end, whichever way it leaves (no auto-process module, failed fetch, a
\* throw outside the per-message handler, the end of the batch); the flag
\* is clear whenever no pass is in flight, and an invocation that finds it
\* clear at the guard starts a pass.
C27_FlagAlwaysCleared ==
  /\ isProcessing ~> ~isProcessing
  /\ [](isProcessing <=> InFlight # {})
  /\ [][\A p \in SchedProcs :
          (job[p].pc = "load" /\ ~isProcessing /\ job'[p] # job[p])
            => job'[p].pc = "modules" /\ isProcessing']_vars

\* C27 witness: a failure ended an earlier pass before it wrote anything, and
\* the invocation of a later tick has set the flag again and is fetching.
C27_Witness ==
  \E p \in SchedProcs :
    /\ job[p].origin = "tick" /\ job[p].pc = "fetch" /\ isProcessing
    /\ faultBudget < MaxFailures
    /\ processed_emails = <<>> /\ module_records = <<>>

\* C28 (as claimed): at most one interval timer is armed, and an armed timer
\* is the one the handle holds, in every interleaving of start,
\* updateInterval and stop calls.
C28_OneTimerInHandle ==
  /\ Cardinality(timers) <= 1
  /\ \A t \in timers : t.id = processorInterval
  /\ processorInterval # 0 => processorInterval \in TimerIds(timers)

\* The ledger holds a processed row for the message.
ProcessedRow(e) ==
  \E i \in DOMAIN processed_emails :
    processed_emails[i].email_id = e /\ processed_emails[i].status = "processed"

\* C29 (as claimed): with the scheduler running and no collaborator failing,
\* every unread, un-ledgered message tagged for an auto-process module gets
\* its processed ledger row in the end (the tagged messages of the mailbox
\* are the ones the statement is about).
C29_TaggedEventuallyProcessed ==
  \A e \in {i \in BacklogIds : BacklogInbox[i].tag # ""} :
    (~inbox[e].isRead /\ ~LedgerHas(e) /\ AutoProcessTag(e)) ~> ProcessedRow(e)

\* What the store holds for a message, apart from the ids: its ledger rows,
\* the records made from it and the links persisted for them.
Outcome(e) ==
  [ledger |-> {[status |-> processed_emails[i].status,
                module_id |-> processed_emails[i].module_id,
                error_message |-> processed_emails[i].error_message] : i \in LedgerRowsOf(e)},
   records |-> {[module_id |-> module_records[r].module_id,
                 name |-> module_records[r].name,
                 email_subject |-> module_records[r].email_subject] : r \in RecordsOf(e)},
   links |-> {l.url : l \in {x \in record_links : x.record_id \in RecordsOf(e)}}]

\* The two messages are alike in everything the engines look at.
SameContent(e1, e2) ==
  /\ inbox[e1].tag = inbox[e2].tag /\ inbox[e1].rest = inbox[e2].rest
  /\ inbox[e1].atts = inbox[e2].atts /\ inbox[e1].hrefs = inbox[e2].hrefs

\* The POST /process request in flight has the message in one of its lists.
InNowLists(q, e) == Listed(job[q], e) > 0

\* The request has not touched the message: it is not on it, or only about
\* to look it up in the ledger, and has it in none of its lists.
UntouchedByNow(e) ==
  \A q \in NowProcs :
    /\ ~InNowLists(q, e)
    /\ job[q].batch # <<>> /\ job[q].pc # "reply" /\ Cur(q) = e => job[q].pc = "dedup"

\* The request handled the message itself: it processed it, or it wrote the
\* skipped / error row of a message no record was made from.
HandledByNow(e) ==
  \E q \in NowProcs :
    /\ job[q].pc = "reply" => job[q].code = 200
    /\ \/ \E k \in DOMAIN job[q].processed : job[q].processed[k] = e
       \/ InNowLists(q, e) /\ RecordsOf(e) = {}

\* C30 (as claimed): every module having both flags and nothing failing,
\* when a scheduled pass is done with a message it handled itself, the store
\* holds for it the same ledger rows, the same records and the same links as
\* it holds for a message of the same content that a POST /process request
\* handled.
C30_SameEngine ==
  [][\A p \in SchedProcs, e1, e2 \in EmailIds :
       (/\ MovesOn(p) /\ Cur(p) = e1
        /\ ~(job[p].pc = "dedup" /\ LedgerHas(e1))
        /\ UntouchedByNow(e1)
        /\ e2 # e1 /\ SameContent(e1, e2) /\ HandledByNow(e2))
         => Outcome(e1)' = Outcome(e2)']_vars

=============================================================================
